---- MODULE Spec2Model ----
(***************************************************************************)
(* Git LFS pointer files (git_lfs/pointer.py): the SHA256 digest value,    *)
(* the Pointer record, its parser (from_bytes / from_file) and its         *)
(* serializer (__bytes__).                                                 *)
(*                                                                         *)
(* A Python bytes object is a sequence of integers in 0..255, a Python     *)
(* dict is a function whose domain is the set of its keys, and a raised    *)
(* exception is the name of its class.                                     *)
(***************************************************************************)
EXTENDS Integers, Sequences, FiniteSets, TLC

VARIABLES
    input,    \* the bytes handed to the current from_bytes call
    f,        \* the unread remainder of the stream from_file reads
    pc,       \* position: idle, start, attrs, parsed, assigned, serialized,
              \*           failed (from_file raised), raised (__bytes__ raised)
    attrs,    \* the local dict `attrs` of from_file
    nread,    \* number of attribute lines the loop of from_file has taken
    ptr,      \* the Pointer object the caller holds
    nassign,  \* assignments of the caller to ptr.size / ptr.oid so far
    out,      \* <<b>> when __bytes__ returned b for the record as it is, else <<>>
    err,      \* class of the exception raised, "" when none
    gen,      \* number of times an output was fed back to from_bytes
    hexsha,   \* the argument of a SHA256(...) call made on its own
    sha       \* the outcome of that call

vars == <<input, f, pc, attrs, nread, ptr, nassign, out, err, gen, hexsha, sha>>

----------------------------------------------------------------------------
(* Bounds of the model *)

\* attribute lines in a generated input
MaxLines == 3
\* how many times a serialized output is parsed again
MaxGen == 1
\* assignments of the caller to ptr.size / ptr.oid in one run
MaxAssign == 1
\* characters appended to the 62-digit stem of a digest argument
MaxSuffix == 3

----------------------------------------------------------------------------
(* Byte literals *)

NL == 10
SP == 32
COLON == 58

\* b'version'
Key_VERSION == <<118,101,114,115,105,111,110>>
\* b'oid'
Key_OID == <<111,105,100>>
\* b'size'
Key_SIZE == <<115,105,122,101>>

\* b'https://git-lfs.github.com/spec/v1'
Version_V1 == <<104,116,116,112,115,58,47,47,103,105,116,45,108,102,115,46,103,105,116,104,117,98,46,99,111,109,47,115,112,101,99,47,118,49>>
\* b'https://hawser.github.com/spec/v1'
Version_PRE == <<104,116,116,112,115,58,47,47,104,97,119,115,101,114,46,103,105,116,104,117,98,46,99,111,109,47,115,112,101,99,47,118,49>>
\* b'http://git-media.io/v/2'
Version_ALPHA == <<104,116,116,112,58,47,47,103,105,116,45,109,101,100,105,97,46,105,111,47,118,47,50>>

\* [v.value for v in cls.__members__.values()]
Version_members == {Version_V1, Version_PRE, Version_ALPHA}

\* Version.verify(line)
Version_verify(line) == line \in Version_members

----------------------------------------------------------------------------
(* Operations of bytes *)

Min(S) == CHOOSE m \in S : \A n \in S : m <= n

\* positions of byte c in s
Positions(s, c) == {i \in 1..Len(s) : s[i] = c}

\* c in s
Contains(s, c) == Positions(s, c) # {}

\* s.endswith(b'\n')
EndsWithNL(s) == Len(s) > 0 /\ s[Len(s)] = NL

\* s.rstrip(b'\n'): every trailing newline goes
RECURSIVE RStripNL(_)
RStripNL(s) ==
    IF EndsWithNL(s) THEN RStripNL(SubSeq(s, 1, Len(s) - 1)) ELSE s

\* s.split(sep, 1): one part when sep is absent, else the parts around the
\* first sep
Split1(s, sep) ==
    IF ~Contains(s, sep) THEN <<s>>
    ELSE LET i == Min(Positions(s, sep))
         IN  <<SubSeq(s, 1, i - 1), SubSeq(s, i + 1, Len(s))>>

\* f.readline(size): through the first newline, at most size bytes when
\* size >= 0; the whole rest when there is no newline
ReadLine(s, size) ==
    LET end == IF Contains(s, NL) THEN Min(Positions(s, NL)) ELSE Len(s)
        n   == IF size >= 0 /\ end > size THEN size ELSE end
    IN  SubSeq(s, 1, n)

\* the stream after a line was taken from it
AfterLine(s, line) == SubSeq(s, Len(line) + 1, Len(s))

\* s.isdigit(): non-empty and ASCII digits only
IsDigit(s) == Len(s) > 0 /\ \A i \in 1..Len(s) : s[i] \in 48..57

\* int(s) for a string of decimal digits
RECURSIVE BytesToInt(_)
BytesToInt(s) ==
    IF Len(s) = 0 THEN 0
    ELSE 10 * BytesToInt(SubSeq(s, 1, Len(s) - 1)) + (s[Len(s)] - 48)

\* IntToBytes with the conversion b'%x' in place of b'%d'
RECURSIVE IntToBytes_hex(_)
IntToBytes_hex(n) ==
    LET d == n % 16
        c == IF d < 10 THEN 48 + d ELSE 87 + d
    IN  IF n < 16 THEN <<c>> ELSE IntToBytes_hex(n \div 16) \o <<c>>

\* b'%d' % n for n >= 0
RECURSIVE IntToBytes(_)
IntToBytes(n) ==
    IF n < 10 THEN <<48 + n>>
    ELSE IntToBytes(n \div 10) \o <<48 + (n % 10)>>

\* a < b for bytes: byte-wise, a proper prefix is smaller
BytesLess(a, b) ==
    \/ Len(a) < Len(b) /\ SubSeq(b, 1, Len(a)) = a
    \/ \E i \in 1..Len(a) :
          /\ i <= Len(b)
          /\ SubSeq(a, 1, i - 1) = SubSeq(b, 1, i - 1)
          /\ a[i] < b[i]

\* SortedKeys with the order reversed, as sorted(..., reverse=True)
RECURSIVE SortedKeys_reverse(_)
SortedKeys_reverse(K) ==
    IF K = {} THEN <<>>
    ELSE LET m == CHOOSE k \in K : \A o \in K \ {k} : BytesLess(o, k)
         IN  <<m>> \o SortedKeys_reverse(K \ {m})

\* sorted(keys): dict keys are unique, so sorting the items sorts the keys
RECURSIVE SortedKeys(_)
SortedKeys(K) ==
    IF K = {} THEN <<>>
    ELSE LET m == CHOOSE k \in K : \A o \in K \ {k} : BytesLess(k, o)
         IN  <<m>> \o SortedKeys(K \ {m})

\* sep.join(parts)
RECURSIVE Join(_, _)
Join(sep, parts) ==
    IF Len(parts) = 0 THEN <<>>
    ELSE IF Len(parts) = 1 THEN parts[1]
    ELSE parts[1] \o sep \o Join(sep, Tail(parts))

----------------------------------------------------------------------------
(* class SHA256 *)

\* 256 / 4
HexLen == 64

digest_name == <<115,104,97,50,53,54>>

IsHexDigit(c) == c \in 48..57 \/ c \in 65..70 \/ c \in 97..102

HexVal(c) == IF c \in 48..57 THEN c - 48
             ELSE IF c \in 65..70 THEN c - 55 ELSE c - 87

\* binascii.unhexlify(h) for an even-length string of hex digits
Unhexlify(h) == [i \in 1..(Len(h) \div 2) |->
                    16 * HexVal(h[2 * i - 1]) + HexVal(h[2 * i])]

None == [tag |-> "None"]

\* SHA256_init without the length check of the constructor; unhexlify still
\* refuses a string of odd length
SHA256_init_nolen(arg) ==
    IF arg.type = "str" /\ \E i \in 1..Len(arg.data) : arg.data[i] > 127
    THEN [err |-> "UnicodeEncodeError", obj |-> None]
    ELSE IF arg.type \notin {"str", "bytes"}
    THEN [err |-> "TypeError", obj |-> None]
    ELSE IF \/ Len(arg.data) % 2 = 1
            \/ \E i \in 1..Len(arg.data) : ~IsHexDigit(arg.data[i])
    THEN [err |-> "binascii.Error", obj |-> None]
    ELSE [err |-> "",
          obj |-> [tag |-> "SHA256", _hexsha |-> arg.data,
                   _sha |-> Unhexlify(arg.data)]]

\* SHA256(hexsha): arg is [type |-> "str" | "bytes" | "other", data |-> ...];
\* the result carries the exception class in err, "" when the object exists
SHA256_init(arg) ==
    IF arg.type = "str" /\ \E i \in 1..Len(arg.data) : arg.data[i] > 127
    THEN [err |-> "UnicodeEncodeError", obj |-> None]
    ELSE IF arg.type \notin {"str", "bytes"}
    THEN [err |-> "TypeError", obj |-> None]
    ELSE IF Len(arg.data) # HexLen
    THEN [err |-> "ValueError", obj |-> None]
    ELSE IF \E i \in 1..Len(arg.data) : ~IsHexDigit(arg.data[i])
    THEN [err |-> "binascii.Error", obj |-> None]
    ELSE [err |-> "",
          obj |-> [tag |-> "SHA256", _hexsha |-> arg.data,
                   _sha |-> Unhexlify(arg.data)]]

\* SHA256.digest()
digest(o) == o._sha

\* SHA256.hexdigest()
hexdigest(o) == o._hexsha

\* supported_digests with an md5 entry that maps to the same class
supported_digests_md5 == {digest_name, <<109,100,53>>}

\* supported_digests = {b'sha256': SHA256}: the keys
supported_digests == {digest_name}


----------------------------------------------------------------------------
(* class Pointer *)

EmptyDict == [k \in {} |-> <<>>]

\* d[k] = v
DictSet(d, k, v) == [x \in DOMAIN d \cup {k} |-> IF x = k THEN v ELSE d[x]]

\* Pointer.version bound to Version.PRE
Pointer_version_PRE == Version_PRE

\* Pointer.version, a class attribute: Version.V1
Pointer_version == Version_V1

\* Pointer()
Pointer_init == [_attrs |-> EmptyDict, oid |-> None, size |-> 0]

\* no Pointer object yet
NoPointer == [tag |-> "NoPointer"]

\* f.readline(256)
ReadCap == 256

\* Pointer._verify_version(line): True, False, or the exception object that
\* the last line of the method returns
_verify_version(line) ==
    IF EndsWithNL(line) /\ Contains(line, SP)
    THEN LET kv == Split1(RStripNL(line), SP)
         IN  IF kv[1] = Key_VERSION
             THEN (IF Version_verify(kv[2]) THEN "True" ELSE "False")
             ELSE "PointerFormatException"
    ELSE "PointerFormatException"

\* truth value of what _verify_version returns: only False is false, an
\* exception object is true like any other object
Truthy(v) == v # "False"

\* Finalize returning the default record when there is no oid attribute
Finalize_lenient(a) ==
    IF Key_OID \notin DOMAIN a
    THEN [err |-> "", obj |-> [_attrs |-> EmptyDict, oid |-> None, size |-> 0]]
    ELSE LET os == Split1(a[Key_OID], COLON) IN
    IF Len(os) # 2 THEN [err |-> "ValueError", obj |-> NoPointer]
    ELSE IF os[1] \notin supported_digests
    THEN [err |-> "PointerFormatException", obj |-> NoPointer]
    ELSE LET r == SHA256_init([type |-> "bytes", data |-> os[2]]) IN
    IF r.err # "" THEN [err |-> r.err, obj |-> NoPointer]
    ELSE IF Key_SIZE \notin DOMAIN a
    THEN [err |-> "KeyError", obj |-> NoPointer]
    ELSE IF ~IsDigit(a[Key_SIZE])
    THEN [err |-> "PointerFormatException", obj |-> NoPointer]
    ELSE [err |-> "",
          obj |-> [_attrs |-> a, oid |-> r.obj, size |-> BytesToInt(a[Key_SIZE])]]

\* from_file after the loop: [err, obj]
Finalize(a) ==
    IF Key_OID \notin DOMAIN a THEN [err |-> "KeyError", obj |-> NoPointer]
    ELSE LET os == Split1(a[Key_OID], COLON) IN
    IF Len(os) # 2 THEN [err |-> "ValueError", obj |-> NoPointer]
    ELSE IF os[1] \notin supported_digests
    THEN [err |-> "PointerFormatException", obj |-> NoPointer]
    ELSE LET r == SHA256_init([type |-> "bytes", data |-> os[2]]) IN
    IF r.err # "" THEN [err |-> r.err, obj |-> NoPointer]
    ELSE IF Key_SIZE \notin DOMAIN a
    THEN [err |-> "KeyError", obj |-> NoPointer]
    ELSE IF ~IsDigit(a[Key_SIZE])
    THEN [err |-> "PointerFormatException", obj |-> NoPointer]
    ELSE [err |-> "",
          obj |-> [_attrs |-> a, oid |-> r.obj, size |-> BytesToInt(a[Key_SIZE])]]

\* sorted(d.items())
SortedItems(d) ==
    LET ks == SortedKeys(DOMAIN d)
    IN  [i \in 1..Len(ks) |-> <<ks[i], d[ks[i]]>>]

\* BytesAttrs without the assignment to self._attrs[Key.SIZE]
BytesAttrs_keepsize(p) ==
    DictSet(p._attrs, Key_OID, digest_name \o <<COLON>> \o hexdigest(p.oid))

\* the dict __bytes__ leaves in self._attrs
BytesAttrs(p) ==
    DictSet(DictSet(p._attrs, Key_SIZE, IntToBytes(p.size)),
            Key_OID, digest_name \o <<COLON>> \o hexdigest(p.oid))

\* what __bytes__ returns for a Pointer that has a digest
Pointer_bytes(p) ==
    LET items == <<<<Key_VERSION, Pointer_version>>>> \o SortedItems(BytesAttrs(p))
        lines == [i \in 1..Len(items) |-> Join(<<SP>>, items[i])]
    IN  Join(<<NL>>, lines) \o <<NL>>

----------------------------------------------------------------------------
(* Inputs *)

\* the digest of the doctests
HexA == <<52,100,55,97,50,49,52,54,49,52,97,98,50,57,51,53,99,57,52,51,102,57,101,48,102,102,54,57,100,50,50,101,97,100,98,98,56,102,51,50,98,49,50,53,56,100,97,97,97,53,101,50,99,97,50,52,100,49,55,101,50,51,57,51>>
\* its first 40 digits, the malformed digest of the SHA256 doctest
HexShort == SubSeq(HexA, 1, 40)
\* another digest, in upper case
HexB == <<52,68,55,65,50,49,52,54,49,52,65,66,50,57,51,53,67,57,52,51,70,57,69,48,70,70,54,57,68,50,50,69,65,68,66,66,56,70,51,50,66,49,50,53,56,68,65,65,65,53,69,50,67,65,50,52,68,49,55,69,50,51,70,70>>

Line_version(uri) == Key_VERSION \o <<SP>> \o uri
Line_oid(tag, hex) == Key_OID \o <<SP>> \o tag \o <<COLON>> \o hex
Line_size(text) == Key_SIZE \o <<SP>> \o text

\* b'md5'
Tag_md5 == <<109,100,53>>
\* b'zeta 1'
Line_zeta == <<122,101,116,97,32,49>>
\* b'nospace'
Line_nospace == <<110,111,115,112,97,99,101>>
\* b'12345', b'007', b'abc'
Text_12345 == <<49,50,51,52,53>>
Text_007 == <<48,48,55>>
Text_abc == <<97,98,99>>

AttrLines == {
    Line_oid(digest_name, HexA),
    Line_oid(Tag_md5, HexA),
    Line_size(Text_12345),
    Line_size(Text_007),
    Line_zeta,
    Line_version(Version_PRE),
    Line_nospace }

\* first lines other than the primary version line: the two legacy URIs,
\* b'version 1', b'Version 1', b'version', and 256 bytes of b'a' followed
\* by b'zeta 1'
FirstLines == {
    Line_version(Version_PRE),
    Line_version(Version_ALPHA),
    <<118,101,114,115,105,111,110,32,49>>,
    <<86,101,114,115,105,111,110,32,49>>,
    Key_VERSION,
    [i \in 1..ReadCap |-> 97] \o Line_zeta }

Bodies(n) == UNION {[1..k -> AttrLines] : k \in 0..n}

\* the two orders of the doctests, a digest of 40 digits, a size that is not
\* a number, an oid without a colon
FewBodies == {
    <<>>,
    <<Line_oid(digest_name, HexA), Line_size(Text_12345)>>,
    <<Line_size(Text_12345), Line_oid(digest_name, HexA)>>,
    <<Line_oid(digest_name, HexShort), Line_size(Text_12345)>>,
    <<Line_oid(digest_name, HexA), Line_size(Text_abc)>>,
    <<Key_OID \o <<SP>> \o digest_name, Line_size(Text_12345)>> }

\* the lines joined by newlines, with or without a final newline
Render(first, body, nl) ==
    Join(<<NL>>, <<first>> \o body) \o (IF nl THEN <<NL>> ELSE <<>>)

Inputs ==
    {<<>>}
    \cup {Render(Line_version(Version_V1), b, nl) :
             b \in Bodies(MaxLines), nl \in BOOLEAN}
    \cup {Render(fl, b, nl) :
             fl \in FirstLines \cup {Line_version(Version_V1)},
             b \in FewBodies, nl \in BOOLEAN}

\* values the caller assigns to ptr.size
Sizes == {0, 20}

\* arguments of the caller's SHA256(...) calls
DigestArgs == {[type |-> "str", data |-> HexB]}

NoArg == [type |-> "none", data |-> <<>>]
NoCall == [err |-> "none", obj |-> None]

----------------------------------------------------------------------------
(* Operations *)

Init ==
    /\ input = <<>>
    /\ f = <<>>
    /\ pc = "idle"
    /\ attrs = EmptyDict
    /\ nread = 0
    /\ ptr = NoPointer
    /\ nassign = 0
    /\ out = <<>>
    /\ err = ""
    /\ gen = 0
    /\ hexsha = NoArg
    /\ sha = NoCall

\* Pointer.from_bytes(b): wraps b in a BytesIO and enters from_file
Enter(b) ==
    /\ input' = b
    /\ f' = b
    /\ pc' = "start"
    /\ attrs' = EmptyDict
    /\ nread' = 0
    /\ ptr' = NoPointer
    /\ out' = <<>>
    /\ err' = ""
    /\ UNCHANGED <<nassign, hexsha, sha>>

\* the caller parses a pointer file
FromBytes ==
    /\ pc = "idle"
    /\ \E b \in Inputs : Enter(b)
    /\ UNCHANGED gen

\* the caller parses the bytes the last __bytes__ call returned
Reparse ==
    /\ pc = "serialized"
    /\ gen < MaxGen
    /\ Enter(out[1])
    /\ gen' = gen + 1

\* from_file: the version line
ReadVersion ==
    /\ pc = "start"
    /\ LET line == ReadLine(f, ReadCap) IN
       IF line = <<>>
       THEN /\ ptr' = Pointer_init
            /\ pc' = "parsed"
            /\ UNCHANGED <<f, err>>
       ELSE IF ~Truthy(_verify_version(line))
       THEN /\ err' = "VersionUnsupportedException"
            /\ pc' = "failed"
            /\ f' = AfterLine(f, line)
            /\ UNCHANGED ptr
       ELSE /\ pc' = "attrs"
            /\ f' = AfterLine(f, line)
            /\ UNCHANGED <<ptr, err>>
    /\ UNCHANGED <<input, attrs, nread, nassign, out, gen, hexsha, sha>>

\* from_file: one turn of the loop over the remaining lines
ReadAttr ==
    /\ pc = "attrs"
    /\ f # <<>>
    /\ LET line == ReadLine(f, -1)
           kv   == Split1(RStripNL(line), SP)
       IN  /\ f' = AfterLine(f, line)
           /\ nread' = nread + 1
           /\ IF Len(kv) # 2
              THEN /\ err' = "ValueError"
                   /\ pc' = "failed"
                   /\ UNCHANGED attrs
              ELSE /\ attrs' = DictSet(attrs, kv[1], kv[2])
                   /\ UNCHANGED <<pc, err>>
    /\ UNCHANGED <<input, ptr, nassign, out, gen, hexsha, sha>>

\* from_file: the stream is exhausted; oid, size and the new object
Finish ==
    /\ pc = "attrs"
    /\ f = <<>>
    /\ LET r == Finalize(attrs) IN
       IF r.err # ""
       THEN /\ err' = r.err
            /\ pc' = "failed"
            /\ UNCHANGED ptr
       ELSE /\ ptr' = r.obj
            /\ pc' = "parsed"
            /\ UNCHANGED err
    /\ UNCHANGED <<input, f, attrs, nread, nassign, out, gen, hexsha, sha>>

Held == pc \in {"parsed", "assigned", "serialized"}

\* the caller: ptr.size = n; the bytes of the record as it was are dropped
SetSize ==
    /\ Held
    /\ nassign < MaxAssign
    /\ \E n \in Sizes : ptr' = [ptr EXCEPT !.size = n]
    /\ nassign' = nassign + 1
    /\ pc' = "assigned"
    /\ out' = <<>>
    /\ UNCHANGED <<input, f, attrs, nread, err, gen, hexsha, sha>>

\* the caller: ptr.oid = SHA256(h) for a well-formed h
SetOid ==
    /\ Held
    /\ nassign < MaxAssign
    /\ \E h \in DigestArgs : ptr' = [ptr EXCEPT !.oid = SHA256_init(h).obj]
    /\ nassign' = nassign + 1
    /\ pc' = "assigned"
    /\ out' = <<>>
    /\ UNCHANGED <<input, f, attrs, nread, err, gen, hexsha, sha>>

\* bytes(ptr)
Serialize ==
    /\ Held
    /\ IF ptr.oid = None
       THEN /\ ptr' = [ptr EXCEPT !._attrs =
                          DictSet(ptr._attrs, Key_SIZE, IntToBytes(ptr.size))]
            /\ err' = "AttributeError"
            /\ pc' = "raised"
            /\ UNCHANGED out
       ELSE /\ ptr' = [ptr EXCEPT !._attrs = BytesAttrs(ptr)]
            /\ out' = <<Pointer_bytes(ptr)>>
            /\ pc' = "serialized"
            /\ UNCHANGED err
    /\ UNCHANGED <<input, f, attrs, nread, nassign, gen, hexsha, sha>>

Next ==
    \/ FromBytes
    \/ Reparse
    \/ ReadVersion
    \/ ReadAttr
    \/ Finish
    \/ SetSize
    \/ SetOid
    \/ Serialize

Spec == Init /\ [][Next]_vars

----------------------------------------------------------------------------
(* The digest constructor on its own: every argument of the bounded set *)

\* the first 62 digits of the doctest digest
Stem == SubSeq(HexA, 1, 62)

\* b'3', b'F', b'g' and a byte outside ASCII
SuffixChars == {51, 70, 103, 233}

Suffixes == UNION {[1..k -> SuffixChars] : k \in 0..MaxSuffix}

HexArgs == {[type |-> t, data |-> Stem \o x] :
               t \in {"str", "bytes", "other"}, x \in Suffixes}

InitDigest ==
    /\ input = <<>>
    /\ f = <<>>
    /\ pc = "idle"
    /\ attrs = EmptyDict
    /\ nread = 0
    /\ ptr = NoPointer
    /\ nassign = 0
    /\ out = <<>>
    /\ err = ""
    /\ gen = 0
    /\ hexsha \in HexArgs
    /\ sha = NoCall

\* SHA256(hexsha)
Construct ==
    /\ sha = NoCall
    /\ sha' = SHA256_init(hexsha)
    /\ UNCHANGED <<input, f, pc, attrs, nread, ptr, nassign, out, err,
                   gen, hexsha>>

NextDigest == Construct

SpecDigest == InitDigest /\ [][NextDigest]_vars

----------------------------------------------------------------------------
(* Vocabulary of the properties, over the raw bytes *)

IsPrefix(p, s) == Len(p) <= Len(s) /\ SubSeq(s, 1, Len(p)) = p

\* the lines of b without their terminators; a final terminator opens no line
RECURSIVE LinesOf(_)
LinesOf(b) ==
    IF b = <<>> THEN <<>>
    ELSE IF \A i \in 1..Len(b) : b[i] # NL THEN <<b>>
    ELSE LET i == CHOOSE j \in 1..Len(b) :
                      b[j] = NL /\ \A h \in 1..(j - 1) : b[h] # NL
         IN  <<SubSeq(b, 1, i - 1)>> \o LinesOf(SubSeq(b, i + 1, Len(b)))

HasSpace(l) == \E i \in 1..Len(l) : l[i] = SP

\* the text before the first space of a line, the whole line without one
KeyOf(l) ==
    IF HasSpace(l)
    THEN LET i == CHOOSE j \in 1..Len(l) :
                      l[j] = SP /\ \A h \in 1..(j - 1) : l[h] # SP
         IN  SubSeq(l, 1, i - 1)
    ELSE l

\* the text after the first space of a line
ValueOf(l) == SubSeq(l, Len(KeyOf(l)) + 2, Len(l))

\* byte-lexicographic order
RECURSIVE LexLess(_, _)
LexLess(a, b) ==
    IF b = <<>> THEN FALSE
    ELSE IF a = <<>> THEN TRUE
    ELSE IF a[1] # b[1] THEN a[1] < b[1]
    ELSE LexLess(Tail(a), Tail(b))

\* the attribute lines of an input: what follows its first line
AttrLinesOf(b) == LET ls == LinesOf(b) IN IF ls = <<>> THEN <<>> ELSE Tail(ls)

\* the value of the last line of ls with key k, <<>> when there is none
LastValue(ls, k) ==
    LET I == {i \in 1..Len(ls) : HasSpace(ls[i]) /\ KeyOf(ls[i]) = k}
    IN  IF I = {} THEN <<>>
        ELSE ValueOf(ls[CHOOSE i \in I : \A j \in I : j <= i])

HasKey(ls, k) == \E i \in 1..Len(ls) : HasSpace(ls[i]) /\ KeyOf(ls[i]) = k

\* the first line as from_file reads it: through its terminator, ReadCap
\* bytes at most
FirstRead(b) ==
    IF b = <<>> THEN <<>>
    ELSE LET n == Len(LinesOf(b)[1]) + 1
             m == IF n <= Len(b) THEN n ELSE Len(b)
         IN  SubSeq(b, 1, IF m <= ReadCap THEN m ELSE ReadCap)

Terminated(l) == l # <<>> /\ l[Len(l)] = NL

\* the first line is a terminated `version <uri>` line
VersionLineOf(b, uri) == FirstRead(b) = Key_VERSION \o <<SP>> \o uri \o <<NL>>

RecognizedFirst(b) ==
    \/ VersionLineOf(b, Version_V1)
    \/ VersionLineOf(b, Version_PRE)
    \/ VersionLineOf(b, Version_ALPHA)

\* terminated, with key `version`, and none of the three URIs
UnrecognizedFirst(b) ==
    /\ Terminated(FirstRead(b))
    /\ HasSpace(FirstRead(b))
    /\ KeyOf(FirstRead(b)) = Key_VERSION
    /\ ~RecognizedFirst(b)

\* no terminator, no space, or a key other than `version`
MalformedFirst(b) ==
    \/ ~Terminated(FirstRead(b))
    \/ ~HasSpace(FirstRead(b))
    \/ KeyOf(FirstRead(b)) # Key_VERSION

\* from_file has returned or raised
Returned == pc \notin {"idle", "start", "attrs"}

\* decimal text without leading zeros
Canonical(t) ==
    /\ t # <<>>
    /\ \A i \in 1..Len(t) : t[i] \in 48..57
    /\ (Len(t) > 1 => t[1] # 48)

\* the attribute lines all have a space
AllPairs(ls) == \A i \in 1..Len(ls) : HasSpace(ls[i])

\* keys in order; strictly, no key twice
KeysSorted(ls) ==
    \A i, j \in 1..Len(ls) : i < j => ~LexLess(KeyOf(ls[j]), KeyOf(ls[i]))
KeysIncreasing(ls) ==
    \A i, j \in 1..Len(ls) : i < j => LexLess(KeyOf(ls[i]), KeyOf(ls[j]))

\* the bytes b'sha256:' + hex
OidText(hex) == <<115,104,97,50,53,54,58>> \o hex

\* b'version https://git-lfs.github.com/spec/v1\n'
PrimaryLine == Key_VERSION \o <<SP>> \o Version_V1 \o <<NL>>

\* subclasses of ValueError among the exceptions SHA256 raises
ValueErrors == {"ValueError", "binascii.Error", "UnicodeEncodeError"}

----------------------------------------------------------------------------
(* Properties *)

\* C1: when the bytes that __bytes__ returned are parsed again, the parse
\* succeeds and serializing the new record returns the same bytes, whatever
\* the first input looked like (unsorted lines, repeated keys, a legacy URI,
\* a size with leading zeros, no final newline).
C1_ReparseIdempotent ==
    gen >= 1 =>
        /\ pc # "failed"
        /\ pc # "raised"
        /\ (pc = "serialized" /\ nassign = 0 => out[1] = input)

\* C1 witness: an output with an extension attribute, whose size was read
\* as 007, was parsed again and serialized to the same bytes.
C1_Witness ==
    /\ gen = 1
    /\ pc = "serialized"
    /\ nassign = 0
    /\ out[1] = input
    /\ Len(AttrLinesOf(input)) = 3
    /\ LastValue(AttrLinesOf(input), Key_SIZE) = <<55>>

\* C2 as stated: an input with the primary version line and attribute lines
\* in sorted key order serializes back to itself.
C2_SortedRoundTrip ==
    (/\ pc = "serialized"
     /\ nassign = 0
     /\ VersionLineOf(input, Version_V1)
     /\ KeysSorted(AttrLinesOf(input)))
    => out[1] = input

\* C2 amended: an input with the primary version line, attribute lines in
\* strictly increasing key order, a size without leading zeros and a final
\* newline serializes back to itself.
C2_CanonicalRoundTrip ==
    (/\ pc = "serialized"
     /\ nassign = 0
     /\ VersionLineOf(input, Version_V1)
     /\ KeysIncreasing(AttrLinesOf(input))
     /\ Canonical(LastValue(AttrLinesOf(input), Key_SIZE))
     /\ Terminated(input))
    => out[1] = input

\* C2 witness: a canonical input with an extension attribute, parsed for the
\* first time and serialized.
C2_Witness ==
    /\ pc = "serialized"
    /\ nassign = 0
    /\ gen = 0
    /\ VersionLineOf(input, Version_V1)
    /\ KeysIncreasing(AttrLinesOf(input))
    /\ Canonical(LastValue(AttrLinesOf(input), Key_SIZE))
    /\ Terminated(input)
    /\ Len(AttrLinesOf(input)) = 3
    /\ out[1] = input

\* C3: a non-empty input whose first line has no terminator, no space or a
\* key other than `version` makes from_file raise PointerFormatException
\* before any attribute line is taken.
C3_MissingVersionRaises ==
    (pc \notin {"idle", "start"} /\ input # <<>> /\ MalformedFirst(input))
    => (pc = "failed" /\ err = "PointerFormatException" /\ nread = 0)

\* C4: after a recognized version line, an attribute line without a space,
\* a missing oid or a missing size makes from_file raise
\* PointerFormatException.
C4_StructureRaisesFormatError ==
    (/\ Returned
     /\ RecognizedFirst(input)
     /\ \/ ~AllPairs(AttrLinesOf(input))
        \/ ~HasKey(AttrLinesOf(input), Key_OID)
        \/ ~HasKey(AttrLinesOf(input), Key_SIZE))
    => (pc = "failed" /\ err = "PointerFormatException")

\* the oid attribute of the input carries a tag other than sha256
UnsupportedTag(b) ==
    LET v == LastValue(AttrLinesOf(b), Key_OID)
    IN  /\ HasKey(AttrLinesOf(b), Key_OID)
        /\ \E i \in 1..Len(v) : v[i] = COLON
        /\ ~IsPrefix(OidText(<<>>), v)

C6_EmptyRecordIffEmptyInput ==
    /\ pc = "parsed" =>
          /\ (input = <<>>) <=>
                (ptr.size = 0 /\ ptr.oid = None /\ DOMAIN ptr._attrs = {})
          /\ input # <<>> => ptr.oid # None /\ ptr.oid.tag = "SHA256"
    /\ (input = <<>> /\ pc \notin {"idle", "start"}) => pc # "failed"

\* C6 witness: the zero-length input has been parsed.
C6_Witness ==
    /\ pc = "parsed"
    /\ input = <<>>
    /\ ptr.oid = None
    /\ ptr.size = 0

\* C7: every serialized output starts with the primary version line.
C7_PrimaryVersionFirst ==
    pc = "serialized" => IsPrefix(PrimaryLine, out[1])

\* C7 witness: a record parsed from a git-media input has been serialized.
C7_Witness ==
    /\ pc = "serialized"
    /\ gen = 0
    /\ VersionLineOf(input, Version_ALPHA)
    /\ IsPrefix(PrimaryLine, out[1])

\* C8: in a serialized output the lines after the first are the entries of
\* the attribute map in increasing key order; the map holds what was parsed
\* for every key but oid and size, b'sha256:' + hex of the current digest for
\* oid and the decimal text of the current size for size.
C8_SortedCurrentFields ==
    pc = "serialized" =>
        LET body == AttrLinesOf(out[1])
            m    == ptr._attrs
        IN  /\ Terminated(out[1])
            /\ Len(body) = Cardinality(DOMAIN m)
            /\ {body[i] : i \in 1..Len(body)} =
                  {k \o <<SP>> \o m[k] : k \in DOMAIN m}
            /\ KeysIncreasing(body)
            /\ DOMAIN m = DOMAIN attrs \cup {Key_OID, Key_SIZE}
            /\ \A k \in DOMAIN attrs \ {Key_OID, Key_SIZE} : m[k] = attrs[k]
            /\ m[Key_OID] = OidText(ptr.oid._hexsha)
            /\ Canonical(m[Key_SIZE])
            /\ BytesToInt(m[Key_SIZE]) = ptr.size

\* C8 witness: the caller changed the size of a record with an extension
\* attribute, and the output carries the new size.
C8_Witness ==
    /\ pc = "serialized"
    /\ nassign > 0
    /\ Line_zeta \in {AttrLinesOf(out[1])[i] : i \in 1..Len(AttrLinesOf(out[1]))}
    /\ ptr.size = 20
    /\ attrs[Key_SIZE] = Text_12345
    /\ LastValue(AttrLinesOf(out[1]), Key_SIZE) = <<50, 48>>

\* C9: SHA256(x) returns an object exactly when x is a str or bytes of 64
\* hex digits; a str or bytes of another length raises ValueError; an object
\* has 64 hex digits and a raw digest of 32 bytes.
C9_DigestLength ==
    sha # NoCall =>
        /\ (sha.err = "") <=>
              /\ hexsha.type \in {"str", "bytes"}
              /\ Len(hexsha.data) = 64
              /\ \A i \in 1..Len(hexsha.data) :
                    hexsha.data[i] \in (48..57) \cup (65..70) \cup (97..102)
        /\ (hexsha.type \in {"str", "bytes"} /\ Len(hexsha.data) # 64)
              => sha.err \in ValueErrors
        /\ sha.err = "" =>
              /\ Len(hexdigest(sha.obj)) = 64
              /\ Len(digest(sha.obj)) = 32
              /\ \A i \in 1..32 : digest(sha.obj)[i] \in 0..255

\* C9 witness: a digest object was made from a str of 64 hex digits.
C9_Witness ==
    /\ sha # NoCall
    /\ sha.err = ""
    /\ hexsha.type = "str"
    /\ Len(hexdigest(sha.obj)) = 64

\* the dict d without the keys in K
Without(d, K) == [k \in DOMAIN d \ K |-> d[k]]

\* lines of b with key `version`
VersionLines(b) ==
    {i \in 1..Len(LinesOf(b)) : KeyOf(LinesOf(b)[i]) = Key_VERSION}

\* C10: what the parse left in the attribute map under oid, size and version
\* does not reach the output: the output is that of the same record without
\* these entries, and it has exactly one `version` line.
C10_StoredKeysIrrelevant ==
    pc = "serialized" =>
        /\ out[1] = Pointer_bytes([ptr EXCEPT !._attrs =
                        Without(attrs, {Key_OID, Key_SIZE, Key_VERSION})])
        /\ Cardinality(VersionLines(out[1])) = 1

====
